---- MODULE Spec2Model ----
(***************************************************************************)
(* Model of the response-tag separation parser (src/thinking_parser.py)    *)
(* and of its formatter, followed by the four-stage pipeline               *)
(* (src/agent_pipeline.py) and the thinking callback's sessions            *)
(* (src/thinking_callback.py).                                             *)
(*                                                                         *)
(* A response is a sequence of tokens.  The two delimiters "<think>" and   *)
(* "</think>" each start with "<" and hold no second "<", so they overlap  *)
(* neither themselves nor each other: every Python string splits in one    *)
(* way into delimiter tokens and single other characters.  A character is  *)
(* either whitespace (" ", "\n") or not ("x", "y"); the regular            *)
(* expressions of the parser distinguish nothing else.  Positions are      *)
(* Python's: 0-based, spans half-open.                                     *)
(***************************************************************************)
EXTENDS Integers, Sequences, FiniteSets, TLC

\* Longest response drawn as an input.
MaxLen == 5

OPEN == "<think>"
CLOSE == "</think>"
NL == "\n"
SP == " "

\* The characters a response is made of.
Alphabet == {OPEN, CLOSE, "x", "y", SP, NL}

\* The fixed sentence substituted for an empty answer: one character
\* sequence that holds no delimiter and is not whitespace.
Placeholder == <<"PLACEHOLDER">>

\* Python's None.
None == <<"None">>

\* No match of a regular expression (re.search returning None).
NoMatch == [start |-> -1, end |-> -1, g1s |-> -1, g1e |-> -1]

Min(S) == CHOOSE m \in S : \A n \in S : m <= n
Max(S) == CHOOSE m \in S : \A n \in S : m >= n

\* response[a:b]
Slice(s, a, b) == IF b <= a THEN << >> ELSE SubSeq(s, a + 1, b)

\* str.isspace / the class \s
IsSpace(c) == c \in {SP, NL}

RECURSIVE LStrip(_)
LStrip(s) == IF s # << >> /\ IsSpace(Head(s)) THEN LStrip(Tail(s)) ELSE s

RECURSIVE RStrip(_)
RStrip(s) ==
    IF s # << >> /\ IsSpace(s[Len(s)]) THEN RStrip(SubSeq(s, 1, Len(s) - 1)) ELSE s

\* The strip that leaves the trailing whitespace, str.lstrip().
StripLeftOnly(s) == LStrip(s)

\* str.strip()
Strip(s) == RStrip(LStrip(s))

\* The start test with the opener's tag written in place of the closer's.
StartsWithOpen(s) == Len(s) >= 1 /\ s[1] = OPEN

\* response.startswith('</think>')
StartsWithClose(s) == Len(s) >= 1 /\ s[1] = CLOSE

\* re.sub(r'</think>\s*', '', s): a left-to-right scan; inClose holds while
\* the scan is inside a match (after a closer, consuming \s* greedily).
RECURSIVE SubScan(_, _)
SubScan(s, inClose) ==
    IF s = << >> THEN << >>
    ELSE IF Head(s) = CLOSE THEN SubScan(Tail(s), TRUE)
    ELSE IF inClose /\ IsSpace(Head(s)) THEN SubScan(Tail(s), TRUE)
    ELSE <<Head(s)>> \o SubScan(Tail(s), FALSE)

\* The substitution with the pattern '</think>' alone, without \s*.
SubCloseOnly(s) == SelectSeq(s, LAMBDA c : c # CLOSE)

SubCloseWs(s) == SubScan(s, FALSE)

\* The end of a lazy group: the first of the positions where the rest of
\* the pattern matches, or -1 when there is none.
LazyEnd(stops) == IF stops = {} THEN -1 ELSE Min(stops)

\* '$' without re.MULTILINE: at the end, or before a newline that ends the string.
AtDollar(s, p) == p = Len(s) \/ (p = Len(s) - 1 /\ s[Len(s)] = NL)

\* re.search of a pattern that begins with '<think>': start positions are
\* tried left to right; matchAt[i] is the match with the opener at i or NoMatch.
SearchFrom(s, matchAt) ==
    LET starts == {i \in 0..(Len(s) - 1) : s[i + 1] = OPEN /\ matchAt[i] # NoMatch}
    IN  IF starts = {} THEN NoMatch ELSE matchAt[Min(starts)]

\* The pair pattern with a greedy group, <think>(.*)</think>.
ThinkPatternGreedyAt(s, i) ==
    LET closers == {q \in (i + 1)..(Len(s) - 1) : s[q + 1] = CLOSE}
    IN  IF closers = {} THEN NoMatch
        ELSE [start |-> i, end |-> Max(closers) + 1,
              g1s |-> i + 1, g1e |-> Max(closers)]

\* think_pattern: <think>(.*?)</think> with re.DOTALL
ThinkPatternAt(s, i) ==
    LET stops == {q \in (i + 1)..(Len(s) - 1) : s[q + 1] = CLOSE}
        e == LazyEnd(stops)
    IN  IF e = -1 THEN NoMatch
        ELSE [start |-> i, end |-> e + 1, g1s |-> i + 1, g1e |-> e]

ThinkPatternSearch(s) ==
    SearchFrom(s, [i \in 0..(Len(s) - 1) |-> ThinkPatternAt(s, i)])

\* think_flexible_pattern: <think>(.*?)(?:</think>|$) with re.DOTALL
ThinkFlexibleAt(s, i) ==
    LET stops == {q \in (i + 1)..Len(s) :
                      (q < Len(s) /\ s[q + 1] = CLOSE) \/ AtDollar(s, q)}
        e == LazyEnd(stops)
    IN  IF e = -1 THEN NoMatch
        ELSE IF e < Len(s) /\ s[e + 1] = CLOSE
             THEN [start |-> i, end |-> e + 1, g1s |-> i + 1, g1e |-> e]
             ELSE [start |-> i, end |-> e, g1s |-> i + 1, g1e |-> e]

ThinkFlexibleSearch(s) ==
    SearchFrom(s, [i \in 0..(Len(s) - 1) |-> ThinkFlexibleAt(s, i)])

\* think_unclosed_pattern: <think>(.*?)(?=\n\n|\Z) with re.DOTALL
ThinkUnclosedAt(s, i) ==
    LET stops == {q \in (i + 1)..Len(s) :
                      q = Len(s) \/ (q + 2 <= Len(s) /\ s[q + 1] = NL /\ s[q + 2] = NL)}
        e == LazyEnd(stops)
    IN  IF e = -1 THEN NoMatch
        ELSE [start |-> i, end |-> e, g1s |-> i + 1, g1e |-> e]

ThinkUnclosedSearch(s) ==
    SearchFrom(s, [i \in 0..(Len(s) - 1) |-> ThinkUnclosedAt(s, i)])

\* think_malformed_pattern: ^(.*?)</think> with re.DOTALL
ThinkMalformedSearch(s) ==
    LET stops == {q \in 0..(Len(s) - 1) : s[q + 1] = CLOSE}
        e == LazyEnd(stops)
    IN  IF e = -1 THEN NoMatch
        ELSE [start |-> 0, end |-> e + 1, g1s |-> 0, g1e |-> e]

\* The end of the whitespace run that starts at position p.
RECURSIVE SpaceRunEnd(_, _)
SpaceRunEnd(s, p) ==
    IF p < Len(s) /\ IsSpace(s[p + 1]) THEN SpaceRunEnd(s, p + 1) ELSE p

\* think_content_pattern: ^.*?</think>\s*\n\s*(.*)$ with re.DOTALL.  The lazy
\* prefix stops at the first closer whose whitespace run holds a newline; the
\* two \s* and the \n between them take that whole run; (.*) takes the rest.
ThinkContentSearch(s) ==
    LET stops == {q \in 0..(Len(s) - 1) :
                      /\ s[q + 1] = CLOSE
                      /\ \E k \in (q + 1)..(SpaceRunEnd(s, q + 1) - 1) : s[k + 1] = NL}
        e == LazyEnd(stops)
    IN  IF e = -1 THEN NoMatch
        ELSE [start |-> 0, end |-> Len(s),
              g1s |-> SpaceRunEnd(s, e + 1), g1e |-> Len(s)]

\* match.group(1)
Group1(s, m) == Slice(s, m.g1s, m.g1e)

\* The first result with a stripped copy kept as the original.
DefaultResultOriginalStripped(response) ==
    [has_thinking |-> FALSE, thinking |-> << >>,
     answer |-> response, original |-> Strip(response)]

\* The first result with the answer stripped.
DefaultResultStripped(response) ==
    [has_thinking |-> FALSE, thinking |-> << >>,
     answer |-> Strip(response), original |-> response]

\* result = {...} as first built
DefaultResult(response) ==
    [has_thinking |-> FALSE, thinking |-> << >>,
     answer |-> response, original |-> response]

\* x if x else "応答が生成されました。"
OrPlaceholder(text) == IF text # << >> THEN text ELSE Placeholder

\* The searches without the flexible pattern: pair, then unclosed.
FindMatchSkipFlexible(response) ==
    LET m1 == ThinkPatternSearch(response)
    IN  IF m1 = NoMatch THEN ThinkUnclosedSearch(response) ELSE m1

\* The three searches for a '<think>' block, each tried only when the one
\* before it found nothing.
FindMatch(response) ==
    LET m1 == ThinkPatternSearch(response)
        m2 == IF m1 = NoMatch THEN ThinkFlexibleSearch(response) ELSE m1
        m3 == IF m2 = NoMatch THEN ThinkUnclosedSearch(response) ELSE m2
    IN  m3

\* Which of the three searches produced FindMatch's result.
FindMatchRule(response) ==
    IF ThinkPatternSearch(response) # NoMatch THEN "pair"
    ELSE IF ThinkFlexibleSearch(response) # NoMatch THEN "flexible"
    ELSE IF ThinkUnclosedSearch(response) # NoMatch THEN "unclosed"
    ELSE "none"

\* The branch without its test 'if thinking_text:'.
MalformedAppliesAnyText(response) ==
    /\ ThinkMalformedSearch(response) # NoMatch
    /\ ThinkContentSearch(response) # NoMatch

\* The branch 'if not match:' with its early return: TRUE when it returns.
MalformedApplies(response) ==
    /\ ThinkMalformedSearch(response) # NoMatch
    /\ Strip(Group1(response, ThinkMalformedSearch(response))) # << >>
    /\ ThinkContentSearch(response) # NoMatch

\* ThinkingParser.parse_response, with the branch that produced the result.
ParseWithRule(response) ==
    LET result == DefaultResult(response)
        match == FindMatch(response)
    IN  IF StartsWithClose(response)
        THEN [rule |-> "dangling",
              result |-> [result EXCEPT
                  !.answer = OrPlaceholder(Strip(SubCloseWs(response)))]]
        ELSE IF match = NoMatch /\ MalformedApplies(response)
        THEN [rule |-> "malformed",
              result |-> [result EXCEPT
                  !.has_thinking = TRUE,
                  !.thinking = Strip(Group1(response, ThinkMalformedSearch(response))),
                  !.answer = OrPlaceholder(
                      Strip(Group1(response, ThinkContentSearch(response))))]]
        ELSE IF match # NoMatch
        THEN [rule |-> FindMatchRule(response),
              result |-> [result EXCEPT
                  !.has_thinking = TRUE,
                  !.thinking = Strip(Group1(response, match)),
                  !.answer = OrPlaceholder(Strip(
                      Slice(response, 0, match.start)
                          \o Slice(response, match.end, Len(response))))]]
        ELSE [rule |-> "none", result |-> result]

parse_response(response) == ParseWithRule(response).result

\* The projection without the has_thinking test on thinking.
format_thinking_always(parsed_response) ==
    [message |-> parsed_response.answer,
     thinking |-> parsed_response.thinking,
     has_thinking |-> parsed_response.has_thinking,
     original_response |-> parsed_response.original]

\* ThinkingParser.format_for_frontend
format_for_frontend(parsed_response) ==
    [message |-> parsed_response.answer,
     thinking |-> IF parsed_response.has_thinking
                  THEN parsed_response.thinking ELSE None,
     has_thinking |-> parsed_response.has_thinking,
     original_response |-> parsed_response.original]

----------------------------------------------------------------------------
\* One response cycle: the raw response, its parse result, the formatted
\* response handed to the client.

VARIABLES response, result, rule, formatted, pc

varsParser == <<response, result, rule, formatted, pc>>

\* The chat requests in flight (see the pipeline below): what the LLM and the
\* search provider may answer, each call's position, input, AgentState, the
\* nodes it entered, the external calls it made, what process_message and
\* process_with_thinking returned to it, and the callback's session.
VARIABLES env, cpc, msgs, st, ran, ext, pmResult, ret, current_session

varsPipeline == <<env, cpc, msgs, st, ran, ext, pmResult, ret, current_session>>

\* Most chat requests in flight at once.
MaxCalls == 2

Calls == 1..MaxCalls

\* No chat request is made while a response cycle of the parser is checked.
PipelineUnused ==
    /\ env = << >>
    /\ cpc = [c \in Calls |-> "off"]
    /\ msgs = [c \in Calls |-> << >>]
    /\ st = [c \in Calls |-> << >>]
    /\ ran = [c \in Calls |-> << >>]
    /\ ext = [c \in Calls |-> << >>]
    /\ pmResult = [c \in Calls |-> << >>]
    /\ ret = [c \in Calls |-> << >>]
    /\ current_session = << >>

\* The KPI monitor (src/kpi_monitor.py): its measurements, today's entry of
\* its per-day search counter and its lock (0 when free, else the holder);
\* each thread's position in record_measurement or get_daily_stats, the
\* metric or the recent_metrics it holds, and the statistics returned to it.
VARIABLES metrics, daily_search_count, lock, kpc, kloc, kret

varsKpi == <<metrics, daily_search_count, lock, kpc, kloc, kret>>

\* Most threads that use the monitor at once.
MaxThreads == 2

Threads == 1..MaxThreads

\* No measurement is recorded or read.
KpiUnused ==
    /\ metrics = << >>
    /\ daily_search_count = 0
    /\ lock = 0
    /\ kpc = [t \in Threads |-> "off"]
    /\ kloc = [t \in Threads |-> << >>]
    /\ kret = [t \in Threads |-> << >>]

\* One call of web_search_with_retry (src/tools.py): its position, its
\* parameters, the loop variable, the results list of the running attempt,
\* each attempt made so far with what it gave, and the list returned.
VARIABLES wpc, max_retries, max_results, attempt, results, tried, wret

varsSearch == <<wpc, max_retries, max_results, attempt, results, tried, wret>>

\* No search with retry is made.
SearchUnused ==
    /\ wpc = "off"
    /\ max_retries = 0
    /\ max_results = 0
    /\ attempt = 0
    /\ results = << >>
    /\ tried = << >>
    /\ wret = << >>

\* The calls of the REST chat_endpoint (src/main.py): each call's position
\* and what it returned or raised.
VARIABLES chat_pc, chat_out

varsChat == <<chat_pc, chat_out>>

\* Most calls of chat_endpoint in flight at once.
MaxRequests == 2

Requests == 1..MaxRequests

\* No call of chat_endpoint is made.
ChatUnused ==
    /\ chat_pc = [r \in Requests |-> "off"]
    /\ chat_out = [r \in Requests |-> << >>]

\* One call of StreamingAgent.stream_response (src/streaming_agent.py): its
\* position, its messages, what process_with_streaming returned, the
\* response accumulated, the events yielded so far, and what the LLM's
\* stream did so far.
VARIABLES spc, smessages, processed, full_response, events, llm_log

varsStream == <<spc, smessages, processed, full_response, events, llm_log>>

\* No streaming response is asked for.
StreamUnused ==
    /\ spc = "off"
    /\ smessages = << >>
    /\ processed = << >>
    /\ full_response = << >>
    /\ events = << >>
    /\ llm_log = << >>

\* A ThinkingCallback used directly (src/thinking_callback.py), its session
\* being current_session: the callbacks registered (each one returns or
\* raises), the invocations of the callbacks so far, the method called last
\* and what end_session returned last, and the numbers of sessions started
\* and of log_step calls made.
VARIABLES callbacks, invoked, last_op, end_ret, n_sessions, n_steps

varsCallback == <<callbacks, invoked, last_op, end_ret, n_sessions, n_steps>>

\* No ThinkingCallback is used directly.
CallbackUnused ==
    /\ callbacks = << >>
    /\ invoked = << >>
    /\ last_op = "off"
    /\ end_ret = << >>
    /\ n_sessions = 0
    /\ n_steps = 0

\* The WebSocket endpoints (src/main.py): the manager's list of
\* connections, and for each connection the endpoint it came to, its
\* handler's position, the texts it took from the client and the messages
\* sent to it.
VARIABLES active_connections, ws_endpoint, ws_pc, ws_received, ws_sent

varsWs == <<active_connections, ws_endpoint, ws_pc, ws_received, ws_sent>>

\* Most connections made.
MaxConnections == 2

Connections == 1..MaxConnections

\* No WebSocket connection is made.
WsUnused ==
    /\ active_connections = << >>
    /\ ws_endpoint = [w \in Connections |-> "none"]
    /\ ws_pc = [w \in Connections |-> "off"]
    /\ ws_received = [w \in Connections |-> << >>]
    /\ ws_sent = [w \in Connections |-> << >>]

varsServices ==
    <<varsKpi, varsSearch, varsChat, varsStream, varsCallback, varsWs>>

\* The services around the parser and the pipeline are not in use.
ServicesUnused ==
    /\ KpiUnused /\ SearchUnused /\ ChatUnused /\ StreamUnused
    /\ CallbackUnused /\ WsUnused

RECURSIVE SeqsUpTo(_)
SeqsUpTo(n) ==
    IF n = 0 THEN {<< >>}
    ELSE LET shorter == SeqsUpTo(n - 1)
         IN  shorter \cup {Append(s, c) : s \in {t \in shorter : Len(t) = n - 1},
                                           c \in Alphabet}

Responses == SeqsUpTo(MaxLen)

InitParser ==
    /\ response \in Responses
    /\ result = None
    /\ rule = "unparsed"
    /\ formatted = None
    /\ pc = "received"
    /\ PipelineUnused
    /\ ServicesUnused

\* parsed = parser.parse_response(response)
ParseResponse ==
    /\ pc = "received"
    /\ result' = parse_response(response)
    /\ rule' = ParseWithRule(response).rule
    /\ pc' = "parsed"
    /\ UNCHANGED <<response, formatted>>
    /\ UNCHANGED <<varsPipeline, varsServices>>

\* formatted = parser.format_for_frontend(parsed)
FormatForFrontend ==
    /\ pc = "parsed"
    /\ formatted' = format_for_frontend(result)
    /\ pc' = "formatted"
    /\ UNCHANGED <<response, result, rule>>
    /\ UNCHANGED <<varsPipeline, varsServices>>

NextParser == ParseResponse \/ FormatForFrontend

vars == <<varsParser, varsPipeline, varsServices>>

SpecParser == InitParser /\ [][NextParser]_vars

----------------------------------------------------------------------------
\* Vocabulary of the properties, stated on positions of the response (1-based,
\* as TLA+ sequences are) and not by the scans the parser uses.

HasTok(s, t) == \E i \in 1..Len(s) : s[i] = t

Positions(s, t) == {i \in 1..Len(s) : s[i] = t}

\* s without its leading and trailing whitespace.
Trim(s) ==
    LET solid == {i \in 1..Len(s) : ~IsSpace(s[i])}
    IN  IF solid = {} THEN << >> ELSE SubSeq(s, Min(solid), Max(solid))

\* The elements of s at the positions I, in order.
RECURSIVE Pick(_, _)
Pick(s, I) == IF I = {} THEN << >> ELSE <<s[Min(I)]>> \o Pick(s, I \ {Min(I)})

Before(s, i) == SubSeq(s, 1, i - 1)
After(s, i) == SubSeq(s, i + 1, Len(s))

Parsed == pc # "received"

\* The response has the closer as its first token.
BeginsWithCloser == response # << >> /\ Head(response) = CLOSE

\* The first position at or after i where a double line-break starts, or
\* the position after the end.
DoubleBreakFrom(s, i) ==
    LET breaks == {k \in i..(Len(s) - 1) : s[k] = NL /\ s[k + 1] = NL}
    IN  IF breaks = {} THEN Len(s) + 1 ELSE Min(breaks)

----------------------------------------------------------------------------
\* C1: for every input string, the empty string and whitespace-only strings
\* included, parse_response returns a non-empty answer.
C1_AnswerNonEmpty == Parsed => result.answer # << >>

\* C2: an input L + '</think>' + A with no opener, not beginning with the
\* closer and with L non-empty after trimming yields has_thinking = true,
\* thinking = trim(L) and answer = trim(A), a line break after the closer or not.
C2_CloserOnlyRecovery ==
    (/\ Parsed
     /\ ~HasTok(response, OPEN)
     /\ HasTok(response, CLOSE)
     /\ ~BeginsWithCloser
     /\ Trim(Before(response, Min(Positions(response, CLOSE)))) # << >>)
    => LET c == Min(Positions(response, CLOSE))
       IN  /\ result.has_thinking = TRUE
           /\ result.thinking = Trim(Before(response, c))
           /\ result.answer = Trim(After(response, c))

\* C3: an input with an opener and no closer after it, not beginning with the
\* closer, yields has_thinking = true and as thinking only the text from
\* after the opener to the first double line-break or the end; what follows
\* the double line-break stays in the answer.
C3_UnterminatedStopsAtDoubleBreak ==
    (/\ Parsed
     /\ ~BeginsWithCloser
     /\ HasTok(response, OPEN)
     /\ \A c \in Positions(response, CLOSE) : c < Min(Positions(response, OPEN)))
    => LET o == Min(Positions(response, OPEN))
           b == DoubleBreakFrom(response, o + 1)
           rest == Trim(Before(response, o) \o SubSeq(response, b, Len(response)))
       IN  /\ result.has_thinking = TRUE
           /\ result.thinking = Trim(SubSeq(response, o + 1, b - 1))
           /\ result.answer = IF rest = << >> THEN Placeholder ELSE rest

\* C4: an input whose first non-whitespace content is the closer (at
\* position 0 or after whitespace only) yields has_thinking = false,
\* thinking = '' and as answer the input with every closer removed, trimmed.
\* The answer is compared on its non-whitespace characters, and the
\* placeholder is accepted for an empty remainder, so that only the cases
\* where the rule is not applied at all violate the statement.
C4_LeadingCloserAfterWhitespace ==
    (/\ Parsed
     /\ HasTok(response, CLOSE)
     /\ \A i \in 1..(Min(Positions(response, CLOSE)) - 1) : IsSpace(response[i]))
    => LET solid == {i \in 1..Len(response) :
                        response[i] # CLOSE /\ ~IsSpace(response[i])}
           shown == {i \in 1..Len(result.answer) : ~IsSpace(result.answer[i])}
       IN  /\ result.has_thinking = FALSE
           /\ result.thinking = << >>
           /\ result.answer = Trim(result.answer)
           /\ IF solid = {} THEN result.answer = Placeholder
              ELSE Pick(result.answer, shown) = Pick(response, solid)

\* C5: an input that begins with the closer, however many closers it holds,
\* yields has_thinking = false, thinking = '' and as answer the input without
\* its closers and without the whitespace that directly follows each of them,
\* trimmed, or the placeholder when nothing remains.
C5_DanglingCloserStripped ==
    (Parsed /\ BeginsWithCloser)
    => LET kept == {i \in 1..Len(response) :
                      /\ response[i] # CLOSE
                      /\ ~\E j \in 1..(i - 1) :
                            /\ response[j] = CLOSE
                            /\ \A k \in (j + 1)..i : IsSpace(response[k])}
           rest == Trim(Pick(response, kept))
       IN  /\ result.has_thinking = FALSE
           /\ result.thinking = << >>
           /\ result.answer = IF rest = << >> THEN Placeholder ELSE rest

C5_Witness ==
    /\ pc = "parsed"
    /\ BeginsWithCloser
    /\ Cardinality(Positions(response, CLOSE)) >= 2
    /\ \E j \in 2..(Len(response) - 2) :
          response[j] = CLOSE /\ IsSpace(response[j + 1]) /\ ~IsSpace(response[j + 2])
    /\ result.answer # Placeholder

\* C6: an input that does not begin with the closer and holds an opener
\* followed later by a closer yields has_thinking = true, thinking = the
\* trimmed text between the first opener and the first closer after it, and
\* answer = trim(text before that opener ++ text after that closer), the
\* placeholder only when that is empty.
C6_WellFormedPair ==
    (/\ Parsed
     /\ ~BeginsWithCloser
     /\ \E o \in Positions(response, OPEN) :
            \E c \in Positions(response, CLOSE) : o < c)
    => LET o == Min(Positions(response, OPEN))
           c == Min({k \in Positions(response, CLOSE) : k > o})
           rest == Trim(Before(response, o) \o After(response, c))
       IN  /\ result.has_thinking = TRUE
           /\ result.thinking = Trim(SubSeq(response, o + 1, c - 1))
           /\ result.answer = IF rest = << >> THEN Placeholder ELSE rest

C6_Witness ==
    /\ pc = "parsed"
    /\ rule = "pair"
    /\ Cardinality(Positions(response, CLOSE)) >= 2
    /\ result.thinking # << >>
    /\ result.answer # Placeholder

\* C7: a string with neither delimiter comes back unchanged: has_thinking =
\* false, thinking = '' and answer exactly the input, untrimmed.
C7_CleanTextUnchanged ==
    (Parsed /\ ~HasTok(response, OPEN) /\ ~HasTok(response, CLOSE))
    => /\ result.has_thinking = FALSE
       /\ result.thinking = << >>
       /\ result.answer = response

C7_Witness ==
    /\ pc = "parsed"
    /\ ~HasTok(response, OPEN) /\ ~HasTok(response, CLOSE)
    /\ Len(response) >= 3
    /\ IsSpace(response[1]) /\ IsSpace(response[Len(response)])
    /\ Trim(response) # << >>
    /\ result.answer = response

\* C8: '<think>' + X with no delimiter in X yields has_thinking = true,
\* thinking = trim(X) taken to the end of the string, and the placeholder as
\* answer.
C8_UnterminatedToEnd ==
    (/\ Parsed
     /\ Len(response) >= 1
     /\ response[1] = OPEN
     /\ ~HasTok(Tail(response), OPEN)
     /\ ~HasTok(Tail(response), CLOSE))
    => /\ result.has_thinking = TRUE
       /\ result.thinking = Trim(Tail(response))
       /\ result.answer = Placeholder

C8_Witness ==
    /\ pc = "parsed"
    /\ Len(response) >= 5
    /\ response[1] = OPEN
    /\ ~HasTok(Tail(response), OPEN) /\ ~HasTok(Tail(response), CLOSE)
    /\ DoubleBreakFrom(response, 2) = 3
    /\ ~IsSpace(response[2]) /\ ~IsSpace(response[5])
    /\ result.thinking = Tail(response)
    /\ result.answer = Placeholder

\* C9: the formatted response has thinking = null, never the empty string,
\* when has_thinking is false, and the parse result's thinking when it is
\* true; message, has_thinking and original_response are the parse result's
\* answer, has_thinking and original.
C9_FormatterProjection ==
    pc = "formatted"
    => /\ ~result.has_thinking => formatted.thinking = None
       /\ ~result.has_thinking => formatted.thinking # << >>
       /\ result.has_thinking => formatted.thinking = result.thinking
       /\ formatted.message = result.answer
       /\ formatted.has_thinking = result.has_thinking
       /\ formatted.original_response = result.original

C9_Witness ==
    /\ pc = "formatted"
    /\ ~result.has_thinking
    /\ HasTok(response, CLOSE)
    /\ formatted.thinking = None
    /\ formatted.message # response

\* C10: the rules apply in fixed priority: an input that begins with the
\* closer yields has_thinking = false even when a complete pair follows, and
\* the text before a closer is taken as thinking (closer-only recovery) only
\* when the input holds no opener at all.
C10_RulePriority ==
    Parsed
    => /\ BeginsWithCloser
          => (rule = "dangling" /\ result.has_thinking = FALSE
                /\ result.thinking = << >>)
       /\ rule = "malformed" => ~HasTok(response, OPEN)
       /\ (HasTok(response, OPEN) /\ ~BeginsWithCloser)
          => LET o == Min(Positions(response, OPEN))
             IN  /\ result.has_thinking = TRUE
                 /\ \E e \in o..Len(response) :
                        result.thinking = Trim(SubSeq(response, o + 1, e))

C10_Witness ==
    /\ pc = "parsed"
    /\ BeginsWithCloser
    /\ \E o \in Positions(response, OPEN) :
          \E c \in Positions(response, CLOSE) : o < c
    /\ result.has_thinking = FALSE

\* C11: in every parse result has_thinking = false implies thinking = '', and
\* thinking has neither leading nor trailing whitespace.
C11_ThinkingTrimmed ==
    Parsed
    => /\ ~result.has_thinking => result.thinking = << >>
       /\ result.thinking # << >>
          => /\ ~IsSpace(result.thinking[1])
             /\ ~IsSpace(result.thinking[Len(result.thinking)])

C11_Witness ==
    /\ pc = "parsed"
    /\ result.has_thinking
    /\ result.thinking # << >>
    /\ \E o \in Positions(response, OPEN) : \E c \in Positions(response, CLOSE) :
          /\ o + 1 < c - 1
          /\ IsSpace(response[o + 1])
          /\ IsSpace(response[c - 1])
          /\ \A k \in 1..(c - 1) : response[k] = OPEN => k = o

\* C12: on every rule path, the placeholder substitutions included, the
\* original field of the parse result is the input, verbatim.
C12_OriginalVerbatim == Parsed => result.original = response

C12_Witness ==
    /\ pc = "parsed"
    /\ result.has_thinking
    /\ result.answer = Placeholder
    /\ IsSpace(response[1]) /\ IsSpace(response[Len(response)])
    /\ result.original = response

\* Some opener of s is followed by whitespace only up to a closer.
HasBlankPair(s) ==
    \E o \in Positions(s, OPEN) : \E c \in Positions(s, CLOSE) :
        o < c /\ \A k \in (o + 1)..(c - 1) : IsSpace(s[k])

\* The first opener of s is followed by whitespace only up to a closer.
FirstPairBlank(s) ==
    /\ HasTok(s, OPEN)
    /\ \E c \in Positions(s, CLOSE) :
          /\ Min(Positions(s, OPEN)) < c
          /\ \A k \in (Min(Positions(s, OPEN)) + 1)..(c - 1) : IsSpace(s[k])

\* The closer-only recovery path: a closer, not at the start, and no opener.
CloserOnly(s) == HasTok(s, CLOSE) /\ ~HasTok(s, OPEN) /\ s[1] # CLOSE

\* C23 as stated: an input with a '<think>'...'</think>' pair whose interior
\* is empty or whitespace-only yields has_thinking = true with thinking = '',
\* whereas the closer-only recovery path yields has_thinking = true only with
\* a thinking that is non-empty after trimming.
C23_BlankPairAnywhere ==
    Parsed
    => /\ HasBlankPair(response)
          => (result.has_thinking = TRUE /\ result.thinking = << >>)
       /\ (CloserOnly(response) /\ result.has_thinking)
          => result.thinking # << >>

\* C23 as amended: an input that does not begin with the closer and whose
\* first opener is followed by whitespace only up to the first closer after
\* it yields has_thinking = true with thinking = ''; the closer-only recovery
\* path yields has_thinking = true only with a non-empty trimmed thinking.
C23_StructuralMatchWins ==
    Parsed
    => /\ (~BeginsWithCloser /\ FirstPairBlank(response))
          => (result.has_thinking = TRUE /\ result.thinking = << >>)
       /\ (CloserOnly(response) /\ result.has_thinking)
          => result.thinking # << >>

C23_Witness ==
    /\ pc = "parsed"
    /\ Len(response) >= 4
    /\ response[1] = OPEN /\ IsSpace(response[2]) /\ response[3] = CLOSE
    /\ ~IsSpace(response[4])
    /\ result.has_thinking = TRUE
    /\ result.thinking = << >>
    /\ result.answer # Placeholder

\* C24: the answer of a parse holds neither delimiter, so parsing it again
\* gives has_thinking = false and the same answer.
C24_AnswerIsFixpoint ==
    Parsed
    => /\ ~HasTok(result.answer, OPEN)
       /\ ~HasTok(result.answer, CLOSE)
       /\ parse_response(result.answer).has_thinking = FALSE
       /\ parse_response(result.answer).answer = result.answer

----------------------------------------------------------------------------
(***************************************************************************)
(* The four-stage pipeline (src/agent_pipeline.py) and its integration     *)
(* with the thinking callback (src/thinking_callback.py).                  *)
(*                                                                         *)
(* A Python dict is a function from its keys; None is << >> where a value  *)
(* may be absent (an optional value is a sequence of at most one element), *)
(* and <<"None">> for the error of an AgentState.  A JSON value carries    *)
(* its Python type.  Timestamps and durations are left out: no branch      *)
(* reads them.  An error message is the pair of its prefix and str(e).     *)
(***************************************************************************)

\* dict.get(key, default)
Get(d, key, default) == IF key \in DOMAIN d THEN d[key] ELSE default

JDict(d) == [type |-> "dict", val |-> d]
JList(l) == [type |-> "list", val |-> l]
JStr(chars) == [type |-> "str", val |-> chars]
JInt(n) == [type |-> "int", val |-> <<n>>]

EmptyDict == [k \in {} |-> 0]

\* Texts the LLM may answer with, whatever the stage that asked.
TextPlain == "I think the user wants ..."
TextIntentSearch == "{intent with needs_search: true}"
TextIntentNoSearch == "{intent with needs_search: false}"
TextOnlyAnalysis == "{analysis: a}"
TextEmptyDict == "{}"
TextNumber == "42"
TextPlan == "{plan with keywords: [k1, k2, k3], search_needed: true}"
TextPlanNoSearch == "{plan with keywords: [k1], search_needed: false}"
TextPlanStrKeywords == "{keywords: kw}"
TextPlanNumKeywords == "{keywords: 7}"

AllTexts ==
    {TextPlain, TextIntentSearch, TextIntentNoSearch, TextOnlyAnalysis,
     TextEmptyDict, TextNumber, TextPlan, TextPlanNoSearch,
     TextPlanStrKeywords, TextPlanNumKeywords}

\* json.loads raises JSONDecodeError on the text.
JSONDecodeError(text) == text = TextPlain

\* json.loads(text), for a text it decodes.
JsonLoads(text) ==
    CASE text = TextIntentSearch ->
            JDict([question_type |-> "fact", required_info |-> <<"info">>,
                   needs_search |-> TRUE, complexity |-> "simple",
                   analysis |-> "a"])
      [] text = TextIntentNoSearch ->
            JDict([question_type |-> "greeting", required_info |-> << >>,
                   needs_search |-> FALSE, complexity |-> "simple",
                   analysis |-> "a"])
      [] text = TextOnlyAnalysis -> JDict([analysis |-> "a"])
      [] text = TextEmptyDict -> JDict(EmptyDict)
      [] text = TextNumber -> JInt(42)
      [] text = TextPlan ->
            JDict([keywords |-> JList(<<"k1", "k2", "k3">>),
                   search_strategy |-> "s", expected_info |-> <<"e">>,
                   search_needed |-> TRUE])
      [] text = TextPlanNoSearch ->
            JDict([keywords |-> JList(<<"k1">>), search_needed |-> FALSE])
      [] text = TextPlanStrKeywords -> JDict([keywords |-> JStr(<<"k", "w">>)])
      [] text = TextPlanNumKeywords -> JDict([keywords |-> JInt(7)])

\* What awaiting _call_llm gives: the content of the answer, or the exception
\* it raises for every failure of the request.
LlmOutcomes(texts, fails) ==
    [ok : {TRUE}, text : texts, err : {"none"}]
        \cup (IF fails THEN {[ok |-> FALSE, text |-> "", err |-> "llm_call_error"]}
              ELSE {})

\* A search result record, and the record _web_search_with_retry gives when
\* every attempt failed.
Hit(u) == [title |-> "t", url |-> u, snippet |-> "s"]
SearchErrorHit == [title |-> "search_error", url |-> "", snippet |-> "s"]

\* The condition on a key that is never set, state.get('errors').
MisspelledErrorKey(error) == FALSE

\* state.get('error') as a condition
Truthy(error) == error # None /\ error # << >>

\* The except branch of a node: the error entry, then the error.
NodeError(state, step, prefix, detail) ==
    [state EXCEPT
        !.thinking_log = Append(@, [step |-> step, error |-> detail]),
        !.error = <<prefix, detail>>]

\* state as process_message initialises it
InitialState(user_query) ==
    [user_query |-> user_query,
     intent_analysis |-> JDict(EmptyDict),
     search_plan |-> JDict(EmptyDict),
     search_results |-> << >>,
     final_answer |-> "",
     thinking_log |-> << >>,
     error |-> None]

\* The node without its inner try: a text that does not decode raises into
\* the node's except branch.
intent_analysis_node_no_fallback(state, o) ==
    IF ~o.ok THEN NodeError(state, "intent_analysis", "intent_analysis_error", o.err)
    ELSE IF JSONDecodeError(o.text)
    THEN NodeError(state, "intent_analysis", "intent_analysis_error", "JSONDecodeError")
    ELSE [state EXCEPT
             !.thinking_log = Append(@,
                 [step |-> "intent_analysis", input |-> state.user_query,
                  output |-> JsonLoads(o.text), raw_response |-> o.text]),
             !.intent_analysis = JsonLoads(o.text)]

\* AdvancedRAGPipeline.intent_analysis_node, given what the LLM call gave.
intent_analysis_node(state, o) ==
    IF ~o.ok THEN NodeError(state, "intent_analysis", "intent_analysis_error", o.err)
    ELSE LET intent_data ==
                 IF JSONDecodeError(o.text)
                 THEN JDict([question_type |-> "general",
                             required_info |-> <<"general_information">>,
                             needs_search |-> TRUE,
                             complexity |-> "medium",
                             analysis |-> o.text])
                 ELSE JsonLoads(o.text)
         IN  [state EXCEPT
                 !.thinking_log = Append(@,
                     [step |-> "intent_analysis", input |-> state.user_query,
                      output |-> intent_data, raw_response |-> o.text]),
                 !.intent_analysis = intent_data]

\* What search_plan_node does before it calls the LLM: "raise" (the value of
\* intent_analysis has no get, or no 'analysis'), "skip" or "call".
SearchPlanBranch(state) ==
    IF state.intent_analysis.type # "dict" THEN "raise"
    ELSE IF ~Get(state.intent_analysis.val, "needs_search", TRUE) THEN "skip"
    ELSE IF "analysis" \notin DOMAIN state.intent_analysis.val THEN "raise"
    ELSE "call"

\* AdvancedRAGPipeline.search_plan_node; o is read in the branch "call" only.
search_plan_node(state, o) ==
    CASE SearchPlanBranch(state) = "raise" ->
            NodeError(state, "search_plan", "search_plan_error",
                      IF state.intent_analysis.type # "dict"
                      THEN "AttributeError" ELSE "KeyError")
      [] SearchPlanBranch(state) = "skip" ->
            [state EXCEPT !.search_plan =
                JDict([keywords |-> JList(<< >>), search_needed |-> FALSE,
                       reason |-> "no search needed"])]
      [] SearchPlanBranch(state) = "call" ->
            IF ~o.ok
            THEN NodeError(state, "search_plan", "search_plan_error", o.err)
            ELSE LET plan_data ==
                         IF JSONDecodeError(o.text)
                         THEN JDict([keywords |-> JList(<<state.user_query>>),
                                     search_strategy |-> "basic",
                                     expected_info |-> <<"related">>,
                                     search_needed |-> TRUE])
                         ELSE JsonLoads(o.text)
                 IN  [state EXCEPT
                         !.thinking_log = Append(@,
                             [step |-> "search_plan", input |-> state.user_query,
                              output |-> plan_data, raw_response |-> o.text]),
                         !.search_plan = plan_data]

\* keywords = state['search_plan'].get('keywords', [state['user_query']])
PlanKeywords(state) ==
    Get(state.search_plan.val, "keywords", JList(<<state.user_query>>))

\* What search_node does before it searches: "raise" (search_plan has no
\* get, or keywords cannot be sliced), "skip" or "search".
SearchBranch(state) ==
    IF state.search_plan.type # "dict" THEN "raise"
    ELSE IF ~Get(state.search_plan.val, "search_needed", TRUE) THEN "skip"
    ELSE IF PlanKeywords(state).type \notin {"list", "str"} THEN "raise"
    ELSE "search"

\* keywords[:2]
SearchedKeywords(state) ==
    SubSeq(PlanKeywords(state).val, 1,
           IF Len(PlanKeywords(state).val) < 2 THEN Len(PlanKeywords(state).val) ELSE 2)

\* The loop without its test 'if url': only the already seen urls go.
RECURSIVE UniqueResultsKeepEmpty(_, _)
UniqueResultsKeepEmpty(all_results, seen_urls) ==
    IF all_results = << >> THEN << >>
    ELSE LET r == Head(all_results)
         IN  IF r.url \notin seen_urls
             THEN <<r>> \o UniqueResultsKeepEmpty(Tail(all_results),
                                                  seen_urls \cup {r.url})
             ELSE UniqueResultsKeepEmpty(Tail(all_results), seen_urls)

\* The loop that drops the results with an empty or an already seen url.
RECURSIVE UniqueResults(_, _)
UniqueResults(all_results, seen_urls) ==
    IF all_results = << >> THEN << >>
    ELSE LET r == Head(all_results)
         IN  IF r.url # "" /\ r.url \notin seen_urls
             THEN <<r>> \o UniqueResults(Tail(all_results), seen_urls \cup {r.url})
             ELSE UniqueResults(Tail(all_results), seen_urls)

\* all_results.extend(search_results) for each keyword
RECURSIVE Extend(_, _)
Extend(found, n) == IF n = 0 THEN << >> ELSE Extend(found, n - 1) \o found[n]

\* unique_results[:5]
MaxResults == 5

\* AdvancedRAGPipeline.search_node; found[i] is what the search of the i-th
\* keyword gave, read in the branch "search" only.
search_node(state, found) ==
    CASE SearchBranch(state) = "raise" ->
            NodeError(state, "search", "search_error",
                      IF state.search_plan.type # "dict"
                      THEN "AttributeError" ELSE "TypeError")
      [] SearchBranch(state) = "skip" ->
            [state EXCEPT !.search_results = << >>]
      [] SearchBranch(state) = "search" ->
            LET unique_results ==
                    UniqueResults(Extend(found, Len(SearchedKeywords(state))), {})
                search_results ==
                    SubSeq(unique_results, 1,
                           IF Len(unique_results) < MaxResults
                           THEN Len(unique_results) ELSE MaxResults)
            IN  [state EXCEPT
                    !.thinking_log = Append(@,
                        [step |-> "search", input |-> PlanKeywords(state),
                         output |-> [results_count |-> Len(search_results),
                                     results |-> search_results]]),
                    !.search_results = search_results]

\* AdvancedRAGPipeline.answer_node, given what the LLM call gave.
answer_node(state, o) ==
    IF ~o.ok THEN NodeError(state, "answer", "answer_error", o.err)
    ELSE [state EXCEPT
             !.thinking_log = Append(@,
                 [step |-> "answer", input |-> state.user_query,
                  output |-> o.text]),
             !.final_answer = o.text]

\* The external calls a request made, as kept in ext: an LLM call with what
\* it gave, a search.
LlmCall(o) == [kind |-> "llm", ok |-> o.ok, text |-> o.text]
SearchCall == [kind |-> "search", ok |-> TRUE, text |-> ""]

\* What process_message returns: on an empty message, on a node's error, and
\* after the four nodes.
EmptyMessageResult ==
    [success |-> FALSE, error |-> <<"message_is_empty">>,
     response |-> "enter a question"]

FailureResult(state) ==
    [success |-> FALSE, error |-> state.error, thinking_log |-> state.thinking_log]

SuccessResult(state) ==
    [success |-> TRUE,
     response |-> state.final_answer,
     search_results |-> state.search_results,
     thinking_log |-> state.thinking_log,
     intent_analysis |-> state.intent_analysis,
     search_plan |-> state.search_plan]

\* The content of the first message in place of the last.
FirstContent(messages) ==
    IF messages = << >> THEN "" ELSE Get(messages[1], "content", "")

\* messages[-1].get("content", "") if messages else ""
LastContent(messages) ==
    IF messages = << >> THEN "" ELSE Get(messages[Len(messages)], "content", "")

\* The session id the caller passes for a call.
SessionId(c) == c

\* ThinkingCallback.start_session: the session that replaces the current one.
start_session(session_id, user_query) ==
    <<[session_id |-> session_id, user_query |-> user_query,
       start_time |-> "t", steps |-> << >>, status |-> "started"]>>

\* ThinkingCallback.log_step on the current session.
log_step(session, step_name, step_data) ==
    IF session = << >> THEN session
    ELSE <<[session[1] EXCEPT
              !.steps = Append(@, [step |-> step_name, data |-> step_data])]>>

\* The loop of _process_with_monitoring over result["thinking_log"].
RECURSIVE LogEntries(_, _)
LogEntries(session, thinking_log) ==
    IF thinking_log = << >> THEN session
    ELSE LET log_entry == Head(thinking_log)
         IN  LogEntries(
                 log_step(session, Get(log_entry, "step", "unknown"),
                          [input |-> Get(log_entry, "input", << >>),
                           output |-> Get(log_entry, "output", << >>),
                           error |-> Get(log_entry, "error", << >>)]),
                 Tail(thinking_log))

\* ThinkingCallback.end_session: what it returns (data) and the current
\* session it leaves.
end_session(session, final_response, success) ==
    IF session = << >> THEN [data |-> << >>, current |-> << >>]
    ELSE [data |-> <<[session_id |-> session[1].session_id,
                      user_query |-> session[1].user_query,
                      start_time |-> session[1].start_time,
                      steps |-> session[1].steps,
                      end_time |-> "t",
                      final_response |-> final_response,
                      status |-> IF success THEN "completed" ELSE "failed"]>>,
          current |-> << >>]

\* result["thinking_session"] = session_data
WithSession(res, session_data) ==
    [k \in DOMAIN res \cup {"thinking_session"} |->
        IF k = "thinking_session" THEN session_data ELSE res[k]]

\* From the return of process_message to the return of process_with_thinking,
\* which holds no await: the steps are logged, the session is ended.
Return(c, res) ==
    LET logged == IF "thinking_log" \in DOMAIN res
                  THEN LogEntries(current_session, res.thinking_log)
                  ELSE current_session
        ended == end_session(logged, Get(res, "response", ""),
                             Get(res, "success", FALSE))
    IN  /\ pmResult' = [pmResult EXCEPT ![c] = <<res>>]
        /\ ret' = [ret EXCEPT ![c] = <<WithSession(res, ended.data)>>]
        /\ current_session' = ended.current
        /\ cpc' = [cpc EXCEPT ![c] = "done"]

\* if state.get('error'): return {...}; otherwise on to the next node.
ReturnOrGoOn(c, state, next) ==
    IF Truthy(state.error) THEN Return(c, FailureResult(state))
    ELSE /\ cpc' = [cpc EXCEPT ![c] = next]
         /\ UNCHANGED <<pmResult, ret, current_session>>

\* process_with_thinking up to the first await: the session is started, the
\* message is validated, intent_analysis_node is entered.
StartCall(c) ==
    /\ cpc[c] = "idle"
    /\ UNCHANGED <<env, msgs, ran, ext>>
    /\ IF LastContent(msgs[c]) = ""
       THEN /\ UNCHANGED st
            /\ LET res == EmptyMessageResult
                   ended == end_session(
                       start_session(SessionId(c), LastContent(msgs[c])),
                       res.response, res.success)
               IN  /\ pmResult' = [pmResult EXCEPT ![c] = <<res>>]
                   /\ ret' = [ret EXCEPT ![c] = <<WithSession(res, ended.data)>>]
                   /\ current_session' = ended.current
                   /\ cpc' = [cpc EXCEPT ![c] = "done"]
       ELSE /\ st' = [st EXCEPT ![c] = InitialState(LastContent(msgs[c]))]
            /\ current_session' = start_session(SessionId(c), LastContent(msgs[c]))
            /\ cpc' = [cpc EXCEPT ![c] = "intent"]
            /\ UNCHANGED <<pmResult, ret>>

\* The LLM call of intent_analysis_node completes.
IntentAnalysis(c) ==
    /\ cpc[c] = "intent"
    /\ \E o \in LlmOutcomes(env.texts, env.fails) :
          LET state == intent_analysis_node(st[c], o)
          IN  /\ st' = [st EXCEPT ![c] = state]
              /\ ext' = [ext EXCEPT ![c] = Append(@, LlmCall(o))]
              /\ ReturnOrGoOn(c, state, "plan")
    /\ ran' = [ran EXCEPT ![c] = Append(@, "intent_analysis")]
    /\ UNCHANGED <<env, msgs>>

\* search_plan_node, with its LLM call when it makes one.
SearchPlan(c) ==
    /\ cpc[c] = "plan"
    /\ \E o \in IF SearchPlanBranch(st[c]) = "call"
                THEN LlmOutcomes(env.texts, env.fails)
                ELSE {[ok |-> FALSE, text |-> "", err |-> "none"]} :
          LET state == search_plan_node(st[c], o)
          IN  /\ st' = [st EXCEPT ![c] = state]
              /\ ext' = [ext EXCEPT ![c] =
                            IF SearchPlanBranch(st[c]) = "call"
                            THEN Append(@, LlmCall(o)) ELSE @]
              /\ ReturnOrGoOn(c, state, "search")
    /\ ran' = [ran EXCEPT ![c] = Append(@, "search_plan")]
    /\ UNCHANGED <<env, msgs>>

\* search_node, with one search per keyword of keywords[:2].
Search(c) ==
    /\ cpc[c] = "search"
    /\ LET n == IF SearchBranch(st[c]) = "search"
                THEN Len(SearchedKeywords(st[c])) ELSE 0
       IN  /\ \E found \in [1..n -> env.lists] :
                 LET state == search_node(st[c], found)
                 IN  /\ st' = [st EXCEPT ![c] = state]
                     /\ ReturnOrGoOn(c, state, "answer")
           /\ ext' = [ext EXCEPT ![c] = @ \o [i \in 1..n |-> SearchCall]]
    /\ ran' = [ran EXCEPT ![c] = Append(@, "search")]
    /\ UNCHANGED <<env, msgs>>

\* The LLM call of answer_node completes; process_message returns.
Answer(c) ==
    /\ cpc[c] = "answer"
    /\ \E o \in LlmOutcomes(env.texts, env.fails) :
          LET state == answer_node(st[c], o)
          IN  /\ st' = [st EXCEPT ![c] = state]
              /\ ext' = [ext EXCEPT ![c] = Append(@, LlmCall(o))]
              /\ IF Truthy(state.error)
                 THEN Return(c, FailureResult(state))
                 ELSE Return(c, SuccessResult(state))
    /\ ran' = [ran EXCEPT ![c] = Append(@, "answer")]
    /\ UNCHANGED <<env, msgs>>

\* The parser is not in use while chat requests are checked.
ParserUnused ==
    /\ response = << >>
    /\ result = None
    /\ rule = "unparsed"
    /\ formatted = None
    /\ pc = "unused"

\* The message lists a call is made with.
UserMessage(content) == [role |-> "user", content |-> content]

MessageLists ==
    {<< >>,
     <<UserMessage("")>>,
     <<[role |-> "user"]>>,
     <<UserMessage("q1"), UserMessage("")>>,
     <<UserMessage("q1")>>,
     <<UserMessage(""), UserMessage("q2")>>}

\* What one keyword's search may give.
WebLists ==
    {<< >>,
     <<SearchErrorHit>>,
     <<Hit("u1"), Hit("u2")>>,
     <<Hit("u2"), Hit("u3"), Hit("")>>,
     <<Hit("u3"), Hit("u4"), Hit("u5"), Hit("u6"), Hit("u7")>>}

\* One chat request at a time, the LLM and the search provider answering
\* anything they can.
InitPipeline ==
    /\ ParserUnused
    /\ ServicesUnused
    /\ env = [texts |-> AllTexts, fails |-> TRUE, lists |-> WebLists]
    /\ cpc = [c \in Calls |-> IF c = 1 THEN "idle" ELSE "off"]
    /\ msgs \in [Calls -> MessageLists]
    /\ \A c \in Calls : c # 1 => msgs[c] = << >>
    /\ st = [c \in Calls |-> << >>]
    /\ ran = [c \in Calls |-> << >>]
    /\ ext = [c \in Calls |-> << >>]
    /\ pmResult = [c \in Calls |-> << >>]
    /\ ret = [c \in Calls |-> << >>]
    /\ current_session = << >>

NextPipeline ==
    /\ UNCHANGED <<varsParser, varsServices>>
    /\ \E c \in Calls :
          \/ StartCall(c)
          \/ IntentAnalysis(c)
          \/ SearchPlan(c)
          \/ Search(c)
          \/ Answer(c)

SpecPipeline == InitPipeline /\ [][NextPipeline]_vars

\* Chat requests that overlap on one ThinkingIntegration, every call with the
\* default callback: a call runs from one await of the LLM to the next while
\* the others wait for theirs.  The LLM answers in plain text or fails.
InitSessions ==
    /\ ParserUnused
    /\ ServicesUnused
    /\ env = [texts |-> {TextPlain, TextIntentNoSearch}, fails |-> TRUE,
              lists |-> {<<Hit("u1")>>}]
    /\ cpc = [c \in Calls |-> "idle"]
    /\ msgs \in [Calls -> {<< >>, <<UserMessage("q1")>>, <<UserMessage("q2")>>}]
    /\ st = [c \in Calls |-> << >>]
    /\ ran = [c \in Calls |-> << >>]
    /\ ext = [c \in Calls |-> << >>]
    /\ pmResult = [c \in Calls |-> << >>]
    /\ ret = [c \in Calls |-> << >>]
    /\ current_session = << >>

SpecSessions == InitSessions /\ [][NextPipeline]_vars

----------------------------------------------------------------------------
\* Vocabulary of the pipeline's properties.

Stages == <<"intent_analysis", "search_plan", "search", "answer">>

\* process_message has returned to call c.
Returned(c) == pmResult[c] # << >>

\* What process_message returned to call c.
PmResult(c) == pmResult[c][1]

\* The message list is empty, or its last message has no content.
EmptyInput(messages) ==
    \/ messages = << >>
    \/ "content" \notin DOMAIN messages[Len(messages)]
    \/ messages[Len(messages)].content = ""

\* The steps of the entries of a log, in order.
StepsOf(log) == [i \in 1..Len(log) |-> log[i].step]

\* C13: process_message called with an empty message list, or with a last
\* message of empty content, returns success = false with the error
\* 'メッセージが空です' and runs no stage: no LLM call, no search call.
C13_EmptyMessageRejected ==
    \A c \in Calls :
        (cpc[c] \notin {"off", "idle"} /\ EmptyInput(msgs[c]))
        => /\ Returned(c)
           /\ PmResult(c).success = FALSE
           /\ PmResult(c).error = <<"message_is_empty">>
           /\ ran[c] = << >>
           /\ ext[c] = << >>

C13_Witness ==
    \E c \in Calls :
        /\ Returned(c)
        /\ Len(msgs[c]) = 2
        /\ msgs[c][1].content # ""
        /\ msgs[c][2].content = ""
        /\ PmResult(c).success = FALSE

\* C14: the stages run in the order intent_analysis, search_plan, search,
\* answer; once a stage has set an error no later stage runs, and the result
\* is success = false with that stage's error and the log so far, whose last
\* entry is the failing stage's error entry.
C14_ShortCircuitOnError ==
    \A c \in Calls :
        /\ ran[c] = SubSeq(Stages, 1, Len(ran[c]))
        /\ (st[c] # << >> /\ st[c].error # None)
           => /\ Returned(c)
              /\ cpc[c] = "done"
              /\ PmResult(c).success = FALSE
              /\ PmResult(c).error = st[c].error
              /\ PmResult(c).thinking_log = st[c].thinking_log
              /\ LET log == PmResult(c).thinking_log
                 IN  /\ Len(log) >= 1
                     /\ "error" \in DOMAIN log[Len(log)]
                     /\ log[Len(log)].step = ran[c][Len(ran[c])]
                     /\ \A i \in 1..(Len(log) - 1) : "error" \notin DOMAIN log[i]

C14_Witness ==
    \E c \in Calls :
        /\ Returned(c)
        /\ PmResult(c).success = FALSE
        /\ ran[c] = <<"intent_analysis", "search_plan", "search">>
        /\ StepsOf(PmResult(c).thinking_log) = ran[c]
        /\ "error" \in DOMAIN PmResult(c).thinking_log[3]

\* C15: whenever process_message returns success = true, the thinking_log
\* holds an entry for each of the four steps.
C15_AllStepsLogged ==
    \A c \in Calls :
        (Returned(c) /\ PmResult(c).success)
        => \A k \in 1..4 :
              \E i \in 1..Len(PmResult(c).thinking_log) :
                  PmResult(c).thinking_log[i].step = Stages[k]

\* C16: whenever process_message returns success = true, intent_analysis
\* holds question_type, required_info, needs_search and complexity, and
\* search_plan holds a list under 'keywords' unless its search_needed is
\* false, whatever the LLM answered.
C16_StructuredFields ==
    \A c \in Calls :
        (Returned(c) /\ PmResult(c).success)
        => /\ PmResult(c).intent_analysis.type = "dict"
           /\ {"question_type", "required_info", "needs_search", "complexity"}
                  \subseteq DOMAIN PmResult(c).intent_analysis.val
           /\ PmResult(c).search_plan.type = "dict"
           /\ LET plan == PmResult(c).search_plan.val
              IN  \/ ("search_needed" \in DOMAIN plan /\ ~plan.search_needed)
                  \/ ("keywords" \in DOMAIN plan /\ plan.keywords.type = "list")

\* C17: every result of process_message with success = false carries a
\* non-empty error and a thinking_log field.
C17_FailureCarriesErrorAndLog ==
    \A c \in Calls :
        (Returned(c) /\ ~PmResult(c).success)
        => /\ "error" \in DOMAIN PmResult(c)
           /\ PmResult(c).error # << >>
           /\ "thinking_log" \in DOMAIN PmResult(c)

\* C18: when the LLM's answer in the intent-analysis or the search-planning
\* stage is not JSON, the stage sets no error, takes its default value
\* (intent: needs_search = true and the raw text as analysis; plan: keywords =
\* [user_query], search_needed = true), appends its log entry and the
\* pipeline goes on to the next stage.
C18_JsonFallback ==
    \A c \in Calls :
        /\ (/\ ran[c] = <<"intent_analysis">>
            /\ ext[c][1].ok
            /\ ext[c][1].text = TextPlain)
           => /\ st[c].error = None
              /\ cpc[c] = "plan"
              /\ Len(st[c].thinking_log) = 1
              /\ st[c].intent_analysis.type = "dict"
              /\ st[c].intent_analysis.val.needs_search = TRUE
              /\ st[c].intent_analysis.val.analysis = TextPlain
              /\ st[c].thinking_log[1].step = "intent_analysis"
              /\ st[c].thinking_log[1].output.val.analysis = TextPlain
        /\ (/\ ran[c] = <<"intent_analysis", "search_plan">>
            /\ Len(ext[c]) = 2
            /\ ext[c][2].ok
            /\ ext[c][2].text = TextPlain)
           => /\ st[c].error = None
              /\ cpc[c] = "search"
              /\ st[c].search_plan.type = "dict"
              /\ st[c].search_plan.val.keywords.type = "list"
              /\ st[c].search_plan.val.keywords.val = <<st[c].user_query>>
              /\ st[c].search_plan.val.search_needed = TRUE
              /\ Len(st[c].thinking_log) = 2
              /\ st[c].thinking_log[2].step = "search_plan"

C18_Witness ==
    \E c \in Calls :
        /\ ran[c] = <<"intent_analysis", "search_plan">>
        /\ cpc[c] = "search"
        /\ Len(st[c].thinking_log) = 2
        /\ st[c].thinking_log[1].raw_response = TextPlain
        /\ st[c].thinking_log[2].raw_response = TextPlain

\* What process_with_thinking returned to call c.
Ret(c) == ret[c][1]

\* The thinking_log of a result, empty when the result has none.
LogOf(res) == IF "thinking_log" \in DOMAIN res THEN res.thinking_log ELSE << >>

\* C19: every result of process_with_thinking carries a thinking_session
\* that is a record with session_id, user_query, start_time, end_time, steps
\* and status; status is 'completed' iff success is true, otherwise 'failed',
\* and steps holds one entry per thinking_log entry, in the same order.
C19_ThinkingSessionShape ==
    \A c \in Calls :
        ret[c] # << >>
        => /\ Ret(c).thinking_session # << >>
           /\ LET session == Ret(c).thinking_session[1]
              IN  /\ {"session_id", "user_query", "start_time", "end_time",
                      "steps", "status"} \subseteq DOMAIN session
                  /\ session.status =
                         (IF Ret(c).success THEN "completed" ELSE "failed")
                  /\ StepsOf(session.steps) = StepsOf(LogOf(Ret(c)))

\* C20: when calls of process_with_thinking on one ThinkingIntegration
\* overlap at the pipeline's awaits, each call gets back its own session,
\* with its own session_id and user_query and exactly its own steps; no call
\* gets a null session or another call's steps.
C20_OwnSessionPerCall ==
    \A c \in Calls :
        ret[c] # << >>
        => /\ Ret(c).thinking_session # << >>
           /\ LET session == Ret(c).thinking_session[1]
              IN  /\ session.session_id = c
                  /\ session.user_query =
                         (IF EmptyInput(msgs[c]) THEN ""
                          ELSE msgs[c][Len(msgs[c])].content)
                  /\ StepsOf(session.steps) = StepsOf(LogOf(Ret(c)))

\* The search calls a chat request has made.
SearchCalls(c) == {i \in 1..Len(ext[c]) : ext[c][i].kind = "search"}

\* The search plan of the request says that no search is needed.
PlanSaysNoSearch(c) ==
    /\ st[c].search_plan.type = "dict"
    /\ "search_needed" \in DOMAIN st[c].search_plan.val
    /\ st[c].search_plan.val["search_needed"] = FALSE

----------------------------------------------------------------------------
(***************************************************************************)
(* The KPI monitor (src/kpi_monitor.py), used by threads.  A step is what  *)
(* a thread does between two points where another thread can run: taking  *)
(* the lock, one access of the shared state, releasing the lock.  Every    *)
(* measurement is taken today and within the last 24 hours, so that        *)
(* get_recent_metrics keeps all of them; the latency and the averages are  *)
(* left out, no branch reads them.                                         *)
(***************************************************************************)

\* Most measurements recorded.
MaxMetrics == 3

\* KPIMetrics(...) as record_measurement builds it
KPIMetrics(token_count, search_requests, error_occurred) ==
    [token_count |-> token_count, search_requests |-> search_requests,
     error_occurred |-> error_occurred]

\* The measurements a caller records.
Measurements ==
    {KPIMetrics(0, 0, TRUE), KPIMetrics(2, 0, FALSE), KPIMetrics(3, 2, FALSE)}

\* The measurements being recorded by a thread that has not appended yet.
Recording == {t \in Threads : kpc[t] \in {"record_lock", "record_append"}}

\* record_measurement is called: the metric is built before the lock is taken.
RecordCall(t) ==
    /\ kpc[t] = "idle"
    /\ Len(metrics) + Cardinality(Recording) < MaxMetrics
    /\ \E m \in Measurements : kloc' = [kloc EXCEPT ![t] = <<m>>]
    /\ kpc' = [kpc EXCEPT ![t] = "record_lock"]
    /\ UNCHANGED <<metrics, daily_search_count, lock, kret>>

\* with self.lock:
RecordAcquire(t) ==
    /\ kpc[t] = "record_lock"
    /\ lock = 0
    /\ lock' = t
    /\ kpc' = [kpc EXCEPT ![t] = "record_append"]
    /\ UNCHANGED <<metrics, daily_search_count, kloc, kret>>

\* self.metrics.append(metric)
RecordAppend(t) ==
    /\ kpc[t] = "record_append"
    /\ metrics' = Append(metrics, kloc[t][1])
    /\ kpc' = [kpc EXCEPT ![t] = "record_count"]
    /\ UNCHANGED <<daily_search_count, lock, kloc, kret>>

\* self.daily_search_count[today] += search_requests
RecordCount(t) ==
    /\ kpc[t] = "record_count"
    /\ daily_search_count' = daily_search_count + kloc[t][1].search_requests
    /\ kpc' = [kpc EXCEPT ![t] = "record_release"]
    /\ UNCHANGED <<metrics, lock, kloc, kret>>

\* The end of the with block; return metric.
RecordRelease(t) ==
    /\ kpc[t] = "record_release"
    /\ lock' = 0
    /\ kloc' = [kloc EXCEPT ![t] = << >>]
    /\ kpc' = [kpc EXCEPT ![t] = "idle"]
    /\ UNCHANGED <<metrics, daily_search_count, kret>>

\* get_daily_stats is called and calls get_recent_metrics.
StatsCall(t) ==
    /\ kpc[t] = "idle"
    /\ kret' = [kret EXCEPT ![t] = << >>]
    /\ kpc' = [kpc EXCEPT ![t] = "stats_lock"]
    /\ UNCHANGED <<metrics, daily_search_count, lock, kloc>>

\* get_recent_metrics: with self.lock:
StatsAcquire(t) ==
    /\ kpc[t] = "stats_lock"
    /\ lock = 0
    /\ lock' = t
    /\ kpc' = [kpc EXCEPT ![t] = "stats_copy"]
    /\ UNCHANGED <<metrics, daily_search_count, kloc, kret>>

\* get_recent_metrics: [m for m in self.metrics if m.timestamp >= cutoff_time]
StatsCopy(t) ==
    /\ kpc[t] = "stats_copy"
    /\ kloc' = [kloc EXCEPT ![t] = metrics]
    /\ kpc' = [kpc EXCEPT ![t] = "stats_release"]
    /\ UNCHANGED <<metrics, daily_search_count, lock, kret>>

\* get_recent_metrics returns: the end of its with block.
StatsRelease(t) ==
    /\ kpc[t] = "stats_release"
    /\ lock' = 0
    /\ kpc' = [kpc EXCEPT ![t] = "stats_build"]
    /\ UNCHANGED <<metrics, daily_search_count, kloc, kret>>

\* The dict get_daily_stats returns, given recent_metrics and what
\* self.daily_search_count[today] holds when line 111 reads it; error_rate
\* is given by its numerator.
get_daily_stats(recent_metrics, counter) ==
    IF recent_metrics = << >>
    THEN [total_requests |-> 0, search_requests |-> 0, errors |-> 0]
    ELSE [total_requests |-> Len(recent_metrics),
          search_requests |-> counter,
          errors |-> Cardinality({i \in 1..Len(recent_metrics) :
                                     recent_metrics[i].error_occurred})]

\* The rest of get_daily_stats, after get_recent_metrics has returned.
StatsBuild(t) ==
    /\ kpc[t] = "stats_build"
    /\ kret' = [kret EXCEPT ![t] = <<get_daily_stats(kloc[t], daily_search_count)>>]
    /\ kloc' = [kloc EXCEPT ![t] = << >>]
    /\ kpc' = [kpc EXCEPT ![t] = "idle"]
    /\ UNCHANGED <<metrics, daily_search_count, lock>>

InitKpi ==
    /\ ParserUnused
    /\ PipelineUnused
    /\ SearchUnused
    /\ ChatUnused
    /\ StreamUnused
    /\ CallbackUnused
    /\ WsUnused
    /\ metrics = << >>
    /\ daily_search_count = 0
    /\ lock = 0
    /\ kpc = [t \in Threads |-> "idle"]
    /\ kloc = [t \in Threads |-> << >>]
    /\ kret = [t \in Threads |-> << >>]

NextKpi ==
    /\ UNCHANGED <<varsParser, varsPipeline, varsSearch, varsChat, varsStream,
                   varsCallback, varsWs>>
    /\ \E t \in Threads :
          \/ RecordCall(t)
          \/ RecordAcquire(t)
          \/ RecordAppend(t)
          \/ RecordCount(t)
          \/ RecordRelease(t)
          \/ StatsCall(t)
          \/ StatsAcquire(t)
          \/ StatsCopy(t)
          \/ StatsRelease(t)
          \/ StatsBuild(t)

SpecKpi == InitKpi /\ [][NextKpi]_vars

\* The search counter after the first n measurements were recorded.
RECURSIVE SearchCountAfter(_)
SearchCountAfter(n) ==
    IF n = 0 THEN 0 ELSE SearchCountAfter(n - 1) + metrics[n].search_requests

\* C21: the accesses of the metrics list and of the search counter being
\* made under the lock, the statistics returned to a thread give a request
\* count and a search count of one state of the monitor: the search count is
\* the one the counter had when the counted requests were the recorded ones.
C21_StatsFromOneState ==
    \A t \in Threads :
        kret[t] # << >>
        => kret[t][1].search_requests
              = SearchCountAfter(kret[t][1].total_requests)

----------------------------------------------------------------------------
(***************************************************************************)
(* web_search_with_retry (src/tools.py; the pipeline's                     *)
(* _web_search_with_retry is the same code).  The provider, DDGS().text,   *)
(* gives at most the number of results asked for, or raises.               *)
(***************************************************************************)

\* Most attempts a caller asks for.
MaxRetries == 3

\* Most results a caller asks for.
MaxAsked == 2

\* What the provider can find: results with title, href and body, one of
\* them without href.
ProviderResults ==
    {[title |-> "t", href |-> "u1", body |-> "s"],
     [title |-> "t", href |-> "u2", body |-> "s"],
     [title |-> "t", body |-> "s"]}

RECURSIVE ProviderLists(_)
ProviderLists(n) ==
    IF n = 0 THEN {<< >>}
    ELSE LET shorter == ProviderLists(n - 1)
         IN  shorter \cup {Append(l, r) : l \in {k \in shorter : Len(k) = n - 1},
                                           r \in ProviderResults}

\* The dict appended for one result of the provider.
ToResult(r) ==
    [title |-> Get(r, "title", ""), url |-> Get(r, "href", ""),
     snippet |-> Get(r, "body", "")]

ToResults(l) == [i \in 1..Len(l) |-> ToResult(l[i])]

\* The except branch that sleeps after every failed attempt, the last too.
OnExceptionAlwaysSleep(a, retries) == "sleep"

\* The except branch: sleep and go on, or return the sentinel.
OnException(a, retries) == IF a < retries - 1 THEN "sleep" ELSE "sentinel"

\* An attempt of the call ends with an exception.
AttemptFails ==
    /\ tried' = Append(tried, [ok |-> FALSE, results |-> << >>])
    /\ results' = << >>
    /\ IF OnException(attempt, max_retries) = "sleep"
       THEN /\ wpc' = "sleep"
            /\ wret' = wret
       ELSE /\ wpc' = "returned"
            /\ wret' = <<SearchErrorHit>>

\* An attempt of the call ends with return results.
AttemptReturns(found) ==
    /\ tried' = Append(tried, [ok |-> TRUE, results |-> found])
    /\ results' = found
    /\ wpc' = "returned"
    /\ wret' = found

\* for attempt in range(max_retries) with no attempt left: the function
\* ends without a return statement.
LoopEnds ==
    /\ wpc = "try"
    /\ attempt >= max_retries
    /\ wpc' = "returned_none"
    /\ UNCHANGED <<max_retries, max_results, attempt, results, tried, wret>>

\* The search with 'lang:ja' of an attempt.
SearchJa ==
    /\ wpc = "try"
    /\ attempt < max_retries
    /\ \/ AttemptFails
       \/ \E l \in ProviderLists(max_results) :
             IF Len(l) < max_results
             THEN /\ results' = ToResults(l)
                  /\ wpc' = "en"
                  /\ UNCHANGED <<tried, wret>>
             ELSE AttemptReturns(ToResults(l))
    /\ UNCHANGED <<max_retries, max_results, attempt>>

\* The search without 'lang:ja', for the results still missing.
SearchEn ==
    /\ wpc = "en"
    /\ \/ AttemptFails
       \/ \E l \in ProviderLists(max_results - Len(results)) :
             AttemptReturns(results \o ToResults(l))
    /\ UNCHANGED <<max_retries, max_results, attempt>>

\* await asyncio.sleep(1); continue
Sleep ==
    /\ wpc = "sleep"
    /\ attempt' = attempt + 1
    /\ wpc' = "try"
    /\ UNCHANGED <<max_retries, max_results, results, tried, wret>>

InitSearch ==
    /\ ParserUnused
    /\ PipelineUnused
    /\ KpiUnused
    /\ ChatUnused
    /\ StreamUnused
    /\ CallbackUnused
    /\ WsUnused
    /\ wpc = "try"
    /\ max_retries \in 0..MaxRetries
    /\ max_results \in 1..MaxAsked
    /\ attempt = 0
    /\ results = << >>
    /\ tried = << >>
    /\ wret = << >>

NextSearch ==
    /\ UNCHANGED <<varsParser, varsPipeline, varsKpi, varsChat, varsStream,
                   varsCallback, varsWs>>
    /\ (LoopEnds \/ SearchJa \/ SearchEn \/ Sleep)

\* The provider answers or raises, and the sleep ends.
SpecSearch == InitSearch /\ [][NextSearch]_vars /\ WF_vars(NextSearch)

\* The attempts that ended without an exception.
Succeeded == {i \in 1..Len(tried) : tried[i].ok}

\* What holds of a call with max_retries >= 1 at any moment.
BoundedRetry ==
    max_retries >= 1
    => /\ Len(tried) <= max_retries
       /\ wpc # "returned_none"
       /\ \A i \in Succeeded : i = Len(tried) /\ wpc = "returned"
       /\ wpc = "returned"
          => IF Succeeded # {}
             THEN wret = tried[Len(tried)].results
             ELSE /\ Len(tried) = max_retries
                  /\ Len(wret) = 1
                  /\ wret[1].title = SearchErrorHit.title
                  /\ wret[1].url = ""
       /\ (Len(tried) = max_retries /\ Succeeded = {}) => wpc = "returned"

\* C22: a call with max_retries >= 1 makes at most max_retries attempts,
\* returns the results of the first attempt that ends without an exception
\* and makes no attempt after it, returns exactly the sentinel record after
\* max_retries failed attempts, and always returns.
C22_BoundedRetry ==
    /\ []BoundedRetry
    /\ max_retries >= 1 => <>(wpc = "returned")

C22_Witness ==
    /\ wpc = "returned"
    /\ max_retries = 3
    /\ Len(tried) = 3
    /\ Succeeded = {}
    /\ wret = <<SearchErrorHit>>

----------------------------------------------------------------------------
(***************************************************************************)
(* The REST chat_endpoint (src/main.py) with the KPI monitor.  The calls   *)
(* run on one event loop: a call runs alone from the return of             *)
(* rag_agent.process_message to its own end, and record_measurement, which *)
(* awaits nothing, takes and releases the lock within that run.            *)
(***************************************************************************)

\* What the model may answer.
ChatResponses ==
    {<<"x">>, <<OPEN, "x", CLOSE, "y", SP, "y">>, <<CLOSE, "x", NL, "y">>}

\* The dicts SimpleRAGAgent.process_message returns.
AgentResults ==
    {[success |-> FALSE, error |-> "message_is_empty"],
     [success |-> FALSE, error |-> "llm_error"]}
    \cup {[success |-> TRUE, response |-> r, search_results |-> sr] :
             r \in ChatResponses,
             sr \in {<< >>, <<Hit("u1"), Hit("u2")>>}}

\* len(response_text.split()): the runs of tokens other than whitespace.
SplitCount(text) ==
    Cardinality({i \in 1..Len(text) :
                    /\ ~IsSpace(text[i])
                    /\ (i = 1 \/ IsSpace(text[i - 1]))})

\* The try block of chat_endpoint from the return of process_message: the
\* measurements it records, and what it returns or the HTTPException it
\* raises.
ChatTry(res) ==
    IF ~Get(res, "success", FALSE)
    THEN [recorded |-> <<KPIMetrics(0, 0, TRUE)>>,
          raised |-> <<[status_code |-> 500,
                        detail |-> Get(res, "error", "unknown_error")]>>,
          returned |-> << >>]
    ELSE LET formatted_response ==
                 format_for_frontend(parse_response(res.response))
         IN  [recorded |-> <<KPIMetrics(SplitCount(res.response),
                                        Len(Get(res, "search_results", << >>)),
                                        FALSE)>>,
              raised |-> << >>,
              returned |-> <<[message |-> formatted_response.message,
                              thinking |-> formatted_response.thinking,
                              has_thinking |-> formatted_response.has_thinking,
                              search_results |->
                                  Get(res, "search_results", << >>)]>>]

\* except Exception as e, around the try block: an exception raised in
\* the block, the HTTPException of its own error branch too, is recorded
\* and raised again as an HTTPException.
ChatExcept(tried_block) ==
    IF tried_block.raised # << >>
    THEN [recorded |-> Append(tried_block.recorded, KPIMetrics(0, 0, TRUE)),
          raised |-> <<[status_code |-> 500,
                        detail |-> <<"chat_error", tried_block.raised[1].detail>>]>>,
          returned |-> << >>]
    ELSE tried_block

\* chat_endpoint from the return of process_message to its end.
chat_endpoint(res) == ChatExcept(ChatTry(res))

\* The search requests of a sequence of measurements.
RECURSIVE SumSearch(_)
SumSearch(ms) ==
    IF ms = << >> THEN 0 ELSE ms[1].search_requests + SumSearch(Tail(ms))

\* chat_endpoint is called, starts the measurement and awaits the agent.
ChatCall(r) ==
    /\ chat_pc[r] = "idle"
    /\ chat_pc' = [chat_pc EXCEPT ![r] = "awaiting"]
    /\ UNCHANGED <<chat_out, varsKpi>>

\* process_message returns and chat_endpoint runs to its end.
ChatResume(r) ==
    /\ chat_pc[r] = "awaiting"
    /\ \E res \in AgentResults :
          LET done == chat_endpoint(res)
          IN  /\ metrics' = metrics \o done.recorded
              /\ daily_search_count' = daily_search_count + SumSearch(done.recorded)
              /\ chat_out' = [chat_out EXCEPT ![r] = <<done>>]
              /\ chat_pc' = [chat_pc EXCEPT ![r] =
                                IF done.raised # << >> THEN "raised" ELSE "returned"]
    /\ UNCHANGED <<lock, kpc, kloc, kret>>

InitChat ==
    /\ ParserUnused
    /\ PipelineUnused
    /\ KpiUnused
    /\ SearchUnused
    /\ StreamUnused
    /\ CallbackUnused
    /\ WsUnused
    /\ chat_pc = [r \in Requests |-> "idle"]
    /\ chat_out = [r \in Requests |-> << >>]

NextChat ==
    /\ UNCHANGED <<varsParser, varsPipeline, varsSearch, varsStream, varsCallback,
                   varsWs>>
    /\ \E r \in Requests : ChatCall(r) \/ ChatResume(r)

SpecChat == InitChat /\ [][NextChat]_vars

\* The calls of chat_endpoint that have ended.
Ended == {r \in Requests : chat_pc[r] \in {"returned", "raised"}}

\* C25: each call of chat_endpoint records exactly one measurement, whether
\* it returns or raises: the monitor holds as many measurements as calls
\* have ended.
C25_OneMeasurementPerCall == Len(metrics) = Cardinality(Ended)

----------------------------------------------------------------------------
(***************************************************************************)
(* StreamingAgent.stream_response (src/streaming_agent.py), consumed to    *)
(* its end.  A text is the sequence of its parts, ERR standing for the     *)
(* characters 'エラー:'.  The outer except branch of stream_response is    *)
(* not reached: process_with_streaming and stream_ollama_response catch    *)
(* what is raised in them, and the tokens are strings.                     *)
(***************************************************************************)

\* Most tokens the LLM streams.
MaxTokens == 3

ERR == "error:"

\* The tokens the LLM can stream, one of them a text that begins with 'エラー:'.
TokenTexts == {<<"x">>, <<"y", ERR>>, <<ERR, "x">>}

\* The message lists stream_response is called with, the last one with a
\* message that is no dict.
StreamInputs == {<< >>, <<UserMessage("q1")>>, <<JStr("text")>>}

\* What web_search_function returns.
StreamSearchLists == {<< >>, <<SearchErrorHit>>, <<Hit("u1"), Hit("u2")>>}

Event(type, content) == [type |-> type, content |-> content]

\* The message has the method get.
IsDict(message) == "type" \notin DOMAIN message

\* StreamingAgent.process_with_streaming, given what the search returns.
process_with_streaming(messages, search_results) ==
    IF messages # << >> /\ ~IsDict(messages[Len(messages)])
    THEN [success |-> FALSE, error |-> <<"AttributeError">>,
          messages |-> messages, search_results |-> << >>]
    ELSE [success |-> TRUE,
          messages |-> <<[role |-> "system",
                          content |-> SubSeq(search_results, 1,
                                             Min({3, Len(search_results)}))]>>
                       \o messages,
          search_results |-> search_results]

\* token.startswith("エラー:")
StartsWithError(token) == token # << >> /\ token[1] = ERR

\* The body of the token loop without the return after the error event.
OnTokenNoReturn(full, token) ==
    IF StartsWithError(token)
    THEN [event |-> Event("error", token), full |-> full, stop |-> FALSE]
    ELSE [event |-> Event("token", token), full |-> full \o token, stop |-> FALSE]

\* The body of the token loop: the event yielded for a token, the response
\* accumulated, and whether the generator returns.
OnToken(full, token) ==
    IF StartsWithError(token)
    THEN [event |-> Event("error", token), full |-> full, stop |-> TRUE]
    ELSE [event |-> Event("token", token), full |-> full \o token, stop |-> FALSE]

\* yield {"type": "status", "content": "検索中..."}
YieldSearching ==
    /\ spc = "start"
    /\ events' = Append(events, Event("status", <<"searching">>))
    /\ spc' = "process"
    /\ UNCHANGED <<smessages, processed, full_response, llm_log>>

\* processed = await self.process_with_streaming(messages), then the error
\* event and return, or the search_results event.
Process ==
    /\ spc = "process"
    /\ \E found \in StreamSearchLists :
          LET p == process_with_streaming(smessages, found)
          IN  /\ processed' = <<p>>
              /\ IF ~p.success
                 THEN /\ events' = Append(events, Event("error", p.error))
                      /\ spc' = "done"
                 ELSE /\ events' = Append(events,
                                          Event("search_results", p.search_results))
                      /\ spc' = "generate"
    /\ UNCHANGED <<smessages, full_response, llm_log>>

\* yield {"type": "status", "content": "回答を生成中..."}
YieldGenerating ==
    /\ spc = "generate"
    /\ events' = Append(events, Event("status", <<"generating">>))
    /\ spc' = "tokens"
    /\ UNCHANGED <<smessages, processed, full_response, llm_log>>

\* One turn of the token loop, for the token given by stream_ollama_response.
TokenTurn(token) ==
    LET turn == OnToken(full_response, token)
    IN  /\ events' = Append(events, turn.event)
        /\ full_response' = turn.full
        /\ spc' = IF turn.stop THEN "done" ELSE "tokens"

\* The LLM streams a token.
LlmToken ==
    /\ spc = "tokens"
    /\ Len(llm_log) < MaxTokens
    /\ \E token \in TokenTexts :
          /\ llm_log' = Append(llm_log, "token")
          /\ TokenTurn(token)
    /\ UNCHANGED <<smessages, processed>>

\* The LLM client raises: stream_ollama_response yields 'エラー: ' + str(e)
\* as its last token.
LlmRaises ==
    /\ spc = "tokens"
    /\ llm_log' = Append(llm_log, "raise")
    /\ TokenTurn(<<ERR, "stream_error">>)
    /\ UNCHANGED <<smessages, processed>>

\* The LLM's stream ends: the completed event.
LlmEnds ==
    /\ spc = "tokens"
    /\ llm_log' = Append(llm_log, "end")
    /\ events' = Append(events, [type |-> "completed", content |-> full_response,
                                  search_results |-> processed[1].search_results])
    /\ spc' = "done"
    /\ UNCHANGED <<smessages, processed, full_response>>

InitStream ==
    /\ ParserUnused
    /\ PipelineUnused
    /\ KpiUnused
    /\ SearchUnused
    /\ ChatUnused
    /\ CallbackUnused
    /\ WsUnused
    /\ spc = "start"
    /\ smessages \in StreamInputs
    /\ processed = << >>
    /\ full_response = << >>
    /\ events = << >>
    /\ llm_log = << >>

NextStream ==
    /\ UNCHANGED <<varsParser, varsPipeline, varsKpi, varsSearch, varsChat,
                   varsCallback, varsWs>>
    /\ (YieldSearching \/ Process \/ YieldGenerating \/ LlmToken
           \/ LlmRaises \/ LlmEnds)

SpecStream == InitStream /\ [][NextStream]_vars

\* The events that end a stream.
Terminal(e) == e.type \in {"completed", "error"}

\* The contents of the token events among the first n events, concatenated.
RECURSIVE TokensUpTo(_)
TokensUpTo(n) ==
    IF n = 0 THEN << >>
    ELSE TokensUpTo(n - 1)
            \o (IF events[n].type = "token" THEN events[n].content ELSE << >>)

\* C26: the events of a stream are a 'status', then either one 'error', or
\* a 'search_results', a 'status', any number of 'token' events and one
\* terminal event, 'completed' or 'error'; nothing follows a terminal event,
\* and the content of 'completed' is the token contents concatenated.
C26_EventOrder ==
    /\ \A i \in 1..Len(events) :
          Terminal(events[i]) => (i = Len(events) /\ spc = "done")
    /\ spc = "done"
       => /\ Len(events) >= 2
          /\ events[1].type = "status"
          /\ Terminal(events[Len(events)])
          /\ \/ Len(events) = 2 /\ events[2].type = "error"
             \/ /\ Len(events) >= 4
                /\ events[2].type = "search_results"
                /\ events[3].type = "status"
                /\ \A i \in 4..(Len(events) - 1) : events[i].type = "token"
          /\ events[Len(events)].type = "completed"
             => events[Len(events)].content = TokensUpTo(Len(events))

C26_Witness ==
    /\ spc = "done"
    /\ Len(events) = 7
    /\ events[7].type = "completed"
    /\ events[7].content = <<"y", ERR, "x", "x">>
    /\ events[2].content = <<SearchErrorHit>>

\* C27: a stream yields an 'error' event only when process_with_streaming
\* or the LLM call failed; the text the model generates is yielded as
\* 'token' events, whatever it holds, and ends in a 'completed' event.
C27_ErrorOnlyOnFailure ==
    /\ \A i \in 1..Len(events) :
          events[i].type = "error"
          => \/ (processed # << >> /\ ~processed[1].success)
             \/ (llm_log # << >> /\ llm_log[Len(llm_log)] = "raise")
    /\ (spc = "done" /\ llm_log # << >> /\ llm_log[Len(llm_log)] = "end")
       => /\ events[Len(events)].type = "completed"
          /\ Cardinality({i \in 1..Len(events) : events[i].type = "token"})
                = Len(llm_log) - 1

----------------------------------------------------------------------------
(***************************************************************************)
(* A ThinkingCallback driven method by method (src/thinking_callback.py).  *)
(* The n-th call of log_step is made with the step name n.  What is        *)
(* written to stdout or to the log file is left out: _log_to_stdout and    *)
(* _log_to_file catch what they raise and change no field.                 *)
(***************************************************************************)

\* Most callbacks registered.
MaxCallbacks == 2

\* Most sessions started.
MaxSessions == 2

\* Most calls of log_step.
MaxSteps == 3

\* The loop over self.callbacks without its try: the first callback that
\* raises ends it.
RECURSIVE InvokeCallbacksNoTry(_, _, _)
InvokeCallbacksNoTry(cbs, i, step_name) ==
    IF i > Len(cbs) THEN << >>
    ELSE IF cbs[i] = "raises" THEN <<[callback |-> i, step |-> step_name]>>
    ELSE <<[callback |-> i, step |-> step_name]>>
            \o InvokeCallbacksNoTry(cbs, i + 1, step_name)

\* The loop of log_step over self.callbacks, from the i-th on: the calls
\* made, a callback that raises being caught.
RECURSIVE InvokeCallbacks(_, _, _)
InvokeCallbacks(cbs, i, step_name) ==
    IF i > Len(cbs) THEN << >>
    ELSE <<[callback |-> i, step |-> step_name]>>
            \o InvokeCallbacks(cbs, i + 1, step_name)

\* ThinkingCallback.add_callback
AddCallback ==
    /\ Len(callbacks) < MaxCallbacks
    /\ \E kind \in {"returns", "raises"} : callbacks' = Append(callbacks, kind)
    /\ last_op' = "add_callback"
    /\ UNCHANGED <<current_session, invoked, end_ret, n_sessions, n_steps>>

\* ThinkingCallback.start_session
StartSession ==
    /\ n_sessions < MaxSessions
    /\ n_sessions' = n_sessions + 1
    /\ current_session' = start_session(n_sessions + 1, "q1")
    /\ last_op' = "start_session"
    /\ UNCHANGED <<callbacks, invoked, end_ret, n_steps>>

\* ThinkingCallback.log_step
LogStep ==
    /\ n_steps < MaxSteps
    /\ n_steps' = n_steps + 1
    /\ current_session' = log_step(current_session, n_steps + 1, "data")
    /\ invoked' = IF current_session = << >> THEN invoked
                  ELSE invoked \o InvokeCallbacks(callbacks, 1, n_steps + 1)
    /\ last_op' = "log_step"
    /\ UNCHANGED <<callbacks, end_ret, n_sessions>>

\* ThinkingCallback.end_session
EndSession ==
    /\ \E success \in BOOLEAN :
          LET r == end_session(current_session, "response", success)
          IN  /\ end_ret' = r.data
              /\ current_session' = r.current
    /\ last_op' = "end_session"
    /\ UNCHANGED <<callbacks, invoked, n_sessions, n_steps>>

InitCallback ==
    /\ ParserUnused
    /\ PipelineUnused
    /\ KpiUnused
    /\ SearchUnused
    /\ ChatUnused
    /\ StreamUnused
    /\ WsUnused
    /\ callbacks = << >>
    /\ invoked = << >>
    /\ last_op = "new"
    /\ end_ret = << >>
    /\ n_sessions = 0
    /\ n_steps = 0

NextCallback ==
    /\ UNCHANGED <<varsParser, varsKpi, varsSearch, varsChat, varsStream, varsWs>>
    /\ UNCHANGED <<env, cpc, msgs, st, ran, ext, pmResult, ret>>
    /\ (AddCallback \/ StartSession \/ LogStep \/ EndSession)

SpecCallback == InitCallback /\ [][NextCallback]_vars

\* What a state of the callback shows: the steps of the session are in call
\* order; after end_session no session is active and the session returned,
\* if any, is completed or failed.
LifecycleState ==
    /\ current_session # << >>
       => \A i, j \in 1..Len(current_session[1].steps) :
              i < j => current_session[1].steps[i].step
                          < current_session[1].steps[j].step
    /\ last_op = "end_session"
       => /\ current_session = << >>
          /\ end_ret # << >> => end_ret[1].status \in {"completed", "failed"}

\* What a call does: log_step and end_session without a session change
\* nothing and end_session returns no session; log_step in a session adds
\* its step at the end and calls every registered callback once, in order,
\* those after a raising one too; end_session in a session returns it with
\* its steps.
LifecycleStep ==
    /\ (last_op' = "log_step" /\ current_session = << >>)
       => (current_session' = << >> /\ invoked' = invoked)
    /\ (last_op' = "end_session" /\ current_session = << >>)
       => (current_session' = << >> /\ invoked' = invoked /\ end_ret' = << >>)
    /\ (last_op' = "log_step" /\ current_session # << >>)
       => /\ current_session' # << >>
          /\ Len(current_session'[1].steps) = Len(current_session[1].steps) + 1
          /\ SubSeq(current_session'[1].steps, 1, Len(current_session[1].steps))
                = current_session[1].steps
          /\ current_session'[1].steps[Len(current_session'[1].steps)].step = n_steps'
          /\ Len(invoked') = Len(invoked) + Len(callbacks)
          /\ \A k \in 1..Len(callbacks) :
                /\ invoked'[Len(invoked) + k].callback = k
                /\ invoked'[Len(invoked) + k].step = n_steps'
    /\ (last_op' = "end_session" /\ current_session # << >>)
       => /\ end_ret' # << >>
          /\ end_ret'[1].steps = current_session[1].steps
          /\ end_ret'[1].session_id = current_session[1].session_id

\* C29: the lifecycle of a ThinkingCallback session: calls without a session
\* change nothing, steps are recorded in call order, a callback that raises
\* stops neither the recording nor the other callbacks, and end_session
\* returns the completed or failed session and leaves none active, so that
\* later steps are dropped.
C29_SessionLifecycle == []LifecycleState /\ [][LifecycleStep]_vars

C29_Witness ==
    /\ callbacks = <<"raises", "returns">>
    /\ last_op = "log_step"
    /\ current_session = << >>
    /\ end_ret # << >>
    /\ Len(end_ret[1].steps) = 2
    /\ Len(invoked) = 4
    /\ n_steps = 3

----------------------------------------------------------------------------
(***************************************************************************)
(* The WebSocket endpoints and their manager (src/main.py).  A handler     *)
(* takes one text from its client, answers it with the messages of one     *)
(* turn and waits for the next; a send to the client succeeds, or raises   *)
(* WebSocketDisconnect or another exception.                               *)
(***************************************************************************)

\* Most texts a handler takes from its client.
MaxMessages == 2

\* What a client sends: a text that is no JSON, JSON that is no
\* ChatRequest, a ChatRequest.
ClientTexts == {"bad_json", "invalid_request", "valid"}

\* The messages a handler sends for one ChatRequest, by endpoint.
Turns(endpoint) ==
    IF endpoint = "chat"
    THEN {<<"processing", "message">>, <<"processing", "error">>}
    ELSE {<<"status", "error">>,
          <<"status", "search_results", "status", "token", "completed">>,
          <<"status", "search_results", "status", "token", "completed",
            "thinking_update">>}

\* list.remove(x): the list without its first x.
RECURSIVE Remove(_, _)
Remove(list, x) ==
    IF list = << >> THEN << >>
    ELSE IF Head(list) = x THEN Tail(list)
    ELSE <<Head(list)>> \o Remove(Tail(list), x)

\* WebSocketManager.connect
connect(connections, websocket) == Append(connections, websocket)

\* WebSocketManager.disconnect
disconnect(connections, websocket) == Remove(connections, websocket)

\* await manager.connect(websocket)
WsConnect(w) ==
    /\ ws_pc[w] = "new"
    /\ active_connections' = connect(active_connections, w)
    /\ ws_pc' = [ws_pc EXCEPT ![w] = "receive"]
    /\ UNCHANGED <<ws_endpoint, ws_received, ws_sent>>

\* await websocket.receive_text() raises WebSocketDisconnect: the branch
\* except WebSocketDisconnect.
WsClientLeaves(w) ==
    /\ ws_pc[w] = "receive"
    /\ active_connections' = disconnect(active_connections, w)
    /\ ws_pc' = [ws_pc EXCEPT ![w] = "ended"]
    /\ UNCHANGED <<ws_endpoint, ws_received, ws_sent>>

\* A text arrives: json.loads and ChatRequest(**message_data) raise on a
\* text that is no ChatRequest.
WsReceive(w) ==
    /\ ws_pc[w] = "receive"
    /\ Len(ws_received[w]) < MaxMessages
    /\ \E text \in ClientTexts :
          /\ ws_received' = [ws_received EXCEPT ![w] = Append(@, text)]
          /\ ws_pc' = [ws_pc EXCEPT ![w] =
                          IF text = "valid" THEN "respond" ELSE "failing"]
    /\ UNCHANGED <<active_connections, ws_endpoint, ws_sent>>

\* The messages of one turn are sent; the handler waits for the next text.
WsRespond(w) ==
    /\ ws_pc[w] = "respond"
    /\ \E turn \in Turns(ws_endpoint[w]) :
          ws_sent' = [ws_sent EXCEPT ![w] = @ \o turn]
    /\ ws_pc' = [ws_pc EXCEPT ![w] = "receive"]
    /\ UNCHANGED <<active_connections, ws_endpoint, ws_received>>

\* A send of the turn raises WebSocketDisconnect after k messages were
\* sent: the branch except WebSocketDisconnect.
WsSendDisconnected(w) ==
    /\ ws_pc[w] = "respond"
    /\ \E turn \in Turns(ws_endpoint[w]) : \E k \in 0..(Len(turn) - 1) :
          ws_sent' = [ws_sent EXCEPT ![w] = @ \o SubSeq(turn, 1, k)]
    /\ active_connections' = disconnect(active_connections, w)
    /\ ws_pc' = [ws_pc EXCEPT ![w] = "ended"]
    /\ UNCHANGED <<ws_endpoint, ws_received>>

\* A send of the turn raises another exception after k messages were sent.
WsSendFails(w) ==
    /\ ws_pc[w] = "respond"
    /\ \E turn \in Turns(ws_endpoint[w]) : \E k \in 0..(Len(turn) - 1) :
          ws_sent' = [ws_sent EXCEPT ![w] = @ \o SubSeq(turn, 1, k)]
    /\ ws_pc' = [ws_pc EXCEPT ![w] = "failing"]
    /\ UNCHANGED <<active_connections, ws_endpoint, ws_received>>

\* The branch except Exception: the error text is sent, or the send raises,
\* and the handler ends.
WsExcept(w) ==
    /\ ws_pc[w] = "failing"
    /\ \/ ws_sent' = [ws_sent EXCEPT ![w] = Append(@, "error_text")]
       \/ ws_sent' = ws_sent
    /\ ws_pc' = [ws_pc EXCEPT ![w] = "ended"]
    /\ UNCHANGED <<active_connections, ws_endpoint, ws_received>>

InitWs ==
    /\ ParserUnused
    /\ PipelineUnused
    /\ KpiUnused
    /\ SearchUnused
    /\ ChatUnused
    /\ StreamUnused
    /\ CallbackUnused
    /\ active_connections = << >>
    /\ ws_endpoint \in [Connections -> {"chat", "stream"}]
    /\ ws_pc = [w \in Connections |-> "new"]
    /\ ws_received = [w \in Connections |-> << >>]
    /\ ws_sent = [w \in Connections |-> << >>]

NextWs ==
    /\ UNCHANGED <<varsParser, varsPipeline, varsKpi, varsSearch, varsChat,
                   varsStream, varsCallback>>
    /\ \E w \in Connections :
          \/ WsConnect(w)
          \/ WsClientLeaves(w)
          \/ WsReceive(w)
          \/ WsRespond(w)
          \/ WsSendDisconnected(w)
          \/ WsSendFails(w)
          \/ WsExcept(w)

SpecWs == InitWs /\ [][NextWs]_vars

\* The handler of the connection is running.
HandlerRunning(w) == ws_pc[w] \in {"receive", "respond", "failing"}

\* C30: active_connections holds exactly the connections whose handler is
\* running, each once: a connection is in it from its connect on and no
\* longer once its handler has ended, however it ended.
C30_ActiveConnections ==
    \A w \in Connections :
        Cardinality({i \in 1..Len(active_connections) : active_connections[i] = w})
            = IF HandlerRunning(w) THEN 1 ELSE 0
====
